---- MODULE Spec2Model ----
(***************************************************************************)
(* tower-compress: the Compress middleware, its CompressFuture, the        *)
(* Accept-Encoding negotiation (Encoding::from_request) and the Encoder    *)
(* enum, modelled from tower-compress/src/lib.rs.                          *)
(*                                                                         *)
(* A header value is a sequence of bytes; a byte is written as a one       *)
(* character string, and "0xFF" stands for a byte outside visible ASCII.   *)
(* A body is a sequence of small numbers.                                  *)
(***************************************************************************)
EXTENDS Integers, Sequences, FiniteSets, TLC

\* ---------------------------------------------------------------- bounds

\* Most Accept-Encoding header instances of a request (negotiation alone).
MaxAccept == 3
\* Longest response body of the wrapped service.
MaxBodyLen == 2
\* Most CompressFutures one middleware hands out in a run.
MaxFutures == 2

\* ---------------------------------------------------------- header values

ACCEPT_ENCODING == "accept-encoding"
CONTENT_ENCODING == "content-encoding"
CONTENT_TYPE == "content-type"
HeaderNames == {ACCEPT_ENCODING, CONTENT_ENCODING, CONTENT_TYPE}

\* The pattern literals of from_request and the statics of header_value.
GzipStr == <<"g", "z", "i", "p">>
DeflateStr == <<"d", "e", "f", "l", "a", "t", "e">>
IdentityStr == <<"i", "d", "e", "n", "t", "i", "t", "y">>

\* Other header values the requests and wrapped responses of the model use.
InflateStr == <<"i", "n", "f", "l", "a", "t", "e">>
IdentityCapStr == <<"I", "d", "e", "n", "t", "i", "t", "y">>
GzipUpperStr == <<"G", "Z", "I", "P">>
XGzipStr == <<"x", "-", "g", "z", "i", "p">>
GzipPrefixStr == <<"g", "z", "i">>
DeflateGzipStr == DeflateStr \o <<",">> \o GzipStr
GzipOpaqueStr == GzipStr \o <<"0xFF">>
DeflateOpaqueStr == <<"0xFF">> \o DeflateStr
BrStr == <<"b", "r">>
TextStr == <<"t", "e", "x", "t">>

\* The bytes HeaderValue::to_str refuses (anything but visible ASCII).
OpaqueBytes == {"0xFF"}

\* An empty header map.
NoHeaders == [n \in HeaderNames |-> <<>>]

\* HeaderMap::get_all: every value stored under the name, in order.
get_all(headers, name) == headers[name]

\* A faulty variant of insert: the value is added after the values already stored
\* (HeaderMap::append).
insert_append(headers, name, value) == [headers EXCEPT ![name] = Append(@, value)]

\* HeaderMap::insert: the value replaces every value stored under the name.
insert(headers, name, value) == [headers EXCEPT ![name] = <<value>>]

\* ------------------------------------------------------------- Encoding

Deflate == "Deflate"
Gzip == "Gzip"
Uncompressed == "Uncompressed"
Encoding == {Deflate, Gzip, Uncompressed}

\* A faulty variant of to_str_ok: every value reads as a string (a lossy conversion).
to_str_lossy(value) == TRUE

\* HeaderValue::to_str succeeds only on visible ASCII.
to_str_ok(value) == \A i \in 1..Len(value) : value[i] \notin OpaqueBytes

\* str::contains: pat occurs as a contiguous run of value.
contains(value, pat) ==
    \E i \in 0..(Len(value) - Len(pat)) :
        SubSeq(value, i + 1, i + Len(pat)) = pat

\* The closure of from_request's filter_map: Some(encoding) or None.
accept_value(value) ==
    IF ~to_str_ok(value) THEN <<>>
    ELSE IF contains(value, GzipStr) THEN <<Gzip>>
    ELSE IF contains(value, DeflateStr) THEN <<Deflate>>
    ELSE <<>>

\* Iterator::filter_map over the header values, in order.
RECURSIVE filter_map(_)
filter_map(values) ==
    IF values = <<>> THEN <<>>
    ELSE accept_value(Head(values)) \o filter_map(Tail(values))

\* A faulty variant of from_request: the last recognizable value wins, not the first.
from_request_last(req) ==
    LET found == filter_map(get_all(req.headers, ACCEPT_ENCODING))
    IN  IF found = <<>> THEN Uncompressed ELSE found[Len(found)]

\* Encoding::from_request: .next().unwrap_or(Encoding::Uncompressed).
from_request(req) ==
    LET found == filter_map(get_all(req.headers, ACCEPT_ENCODING))
    IN  IF found = <<>> THEN Uncompressed ELSE Head(found)

\* A faulty variant of is_compressed: every encoding counts as compressed.
is_compressed_always(encoding) == TRUE

\* A faulty variant of is_compressed: no encoding counts as compressed.
is_compressed_never(encoding) == FALSE

\* Encoding::is_compressed.
is_compressed(encoding) == encoding # Uncompressed

\* Encoding::header_value.
header_value(encoding) ==
    CASE encoding = Deflate -> DeflateStr
      [] encoding = Gzip -> GzipStr
      [] encoding = Uncompressed -> IdentityStr

\* ------------------------------------------------- requests and responses

\* The request body of the tests: the unit value.
UnitBody == "()"

\* A request with the given Accept-Encoding header instances.
Request(accept) ==
    [headers |-> [NoHeaders EXCEPT ![ACCEPT_ENCODING] = accept],
     body |-> UnitBody]

NoRequest == [headers |-> NoHeaders, body |-> "none"]

\* A faulty variant of from_parts: the response is built afresh, with the
\* default status and no headers, around the body.
from_parts_fresh(parts, body) ==
    [status |-> 200, headers |-> NoHeaders, body |-> body]

\* Response::from_parts.
from_parts(parts, body) ==
    [status |-> parts.status, headers |-> parts.headers, body |-> body]

\* Response::into_parts: (parts, body).
into_parts(resp) ==
    [parts |-> [status |-> resp.status, headers |-> resp.headers],
     body |-> resp.body]

NoResponse == [status |-> 0, headers |-> NoHeaders, body |-> <<>>]

\* Body bytes of the model.
BodyBytes == {0, 1}

RECURSIVE SeqsUpTo(_, _)
SeqsUpTo(S, n) ==
    IF n = 0 THEN {<<>>}
    ELSE LET shorter == SeqsUpTo(S, n - 1)
         IN  shorter \cup {Append(s, x) : s \in {t \in shorter : Len(t) = n - 1}, x \in S}

Bodies == SeqsUpTo(BodyBytes, MaxBodyLen)

\* Status and headers of the wrapped responses: with no Content-Encoding,
\* with one value, and with two values.
WrappedParts ==
    { [status |-> 200,
       headers |-> [NoHeaders EXCEPT ![CONTENT_TYPE] = <<TextStr>>]],
      [status |-> 404,
       headers |-> [NoHeaders EXCEPT ![CONTENT_ENCODING] = <<BrStr>>]],
      [status |-> 200,
       headers |-> [NoHeaders EXCEPT ![CONTENT_ENCODING] = <<BrStr, IdentityStr>>,
                                     ![CONTENT_TYPE] = <<TextStr>>]] }

WrappedResponses == {from_parts(p, b) : p \in WrappedParts, b \in Bodies}

\* Error values of the wrapped service, and of the encoders' io::Result.
InnerErrors == {"e1", "e2"}
IoErrors == {"io1", "io2"}

\* deflate::CompressionOptions values.
DefaultOptions == "default"
CompressionOptionsSet == {DefaultOptions, "fast"}

\* ------------------------------------------------ the compression streams
\* The deflate crate's encoders and the flate2 decoders of the tests are
\* outside the repository. What the model keeps of them: the compressed
\* stream is not the input, it depends on the options, the gzip stream wraps
\* a deflate stream in a magic prefix and a checksum/length trailer, and a
\* decoder rejects a stream that is not well formed.

\* Length of the run of Head(s) that s starts with.
RECURSIVE run_length(_)
run_length(s) ==
    IF Len(s) <= 1 THEN Len(s)
    ELSE IF s[2] = s[1] THEN 1 + run_length(Tail(s)) ELSE 1

\* The deflate stream of input: (count, byte) pairs; the fast options search
\* no matches and emit each byte as a run of one.
RECURSIVE deflate_bytes(_, _)
deflate_bytes(options, input) ==
    IF input = <<>> THEN <<>>
    ELSE LET n == IF options = "fast" THEN 1 ELSE run_length(input)
         IN  <<n, Head(input)>> \o deflate_bytes(options, SubSeq(input, n + 1, Len(input)))

RECURSIVE sum(_)
sum(s) == IF s = <<>> THEN 0 ELSE Head(s) + sum(Tail(s))

checksum(input) == sum(input) % 256

\* The gzip stream: magic, deflate stream, checksum and length.
gzip_bytes(options, input) ==
    <<31, 139>> \o deflate_bytes(options, input) \o <<checksum(input), Len(input) % 256>>

\* What a decoder yields on a stream that is not well formed (no body holds -1).
DecodeError == <<-1>>

RECURSIVE repeat(_, _)
repeat(b, n) == IF n = 0 THEN <<>> ELSE <<b>> \o repeat(b, n - 1)

\* flate2::read::DeflateDecoder, read to the end.
RECURSIVE deflate_decode(_)
deflate_decode(stream) ==
    IF stream = <<>> THEN <<>>
    ELSE IF Len(stream) < 2 \/ stream[1] < 1 THEN DecodeError
    ELSE LET rest == deflate_decode(SubSeq(stream, 3, Len(stream)))
         IN  IF rest = DecodeError THEN DecodeError
             ELSE repeat(stream[2], stream[1]) \o rest

\* flate2::read::GzDecoder, read to the end.
gzip_decode(stream) ==
    IF Len(stream) < 4 \/ SubSeq(stream, 1, 2) # <<31, 139>> THEN DecodeError
    ELSE LET data == deflate_decode(SubSeq(stream, 3, Len(stream) - 2))
         IN  IF data = DecodeError THEN DecodeError
             ELSE IF stream[Len(stream) - 1] # checksum(data) THEN DecodeError
             ELSE IF stream[Len(stream)] # Len(data) % 256 THEN DecodeError
             ELSE data

\* The decoder matching an encoding (the identity for Uncompressed).
decode(encoding, stream) ==
    CASE encoding = Deflate -> deflate_decode(stream)
      [] encoding = Gzip -> gzip_decode(stream)
      [] encoding = Uncompressed -> stream

\* -------------------------------------------------------------- Encoder

\* Vec::<u8>::with_capacity.
with_capacity(capacity) == [capacity |-> capacity, buf |-> <<>>]

\* CompressFuture::make_encoder: the Encoder variant of self.encoding around
\* a fresh writer; input is what the stream encoder has accepted so far.
make_encoder(self, capacity) ==
    [kind |-> self.encoding,
     options |-> self.options,
     input |-> <<>>,
     writer |-> with_capacity(capacity)]

\* Results of io::Write::write and of Encoder::finish.
NoIo == [tag |-> "none", n |-> 0, err |-> "none"]
IoOk(n) == [tag |-> "Ok", n |-> n, err |-> "none"]
IoErr(e) == [tag |-> "Err", n |-> 0, err |-> e]

\* What write(buf) can return. Vec<u8> takes the whole buffer and never
\* fails; a stream encoder returns io::Result<usize>: an error, or the
\* number of bytes it accepted, from none to all.
WriteOutcomes(kind, buf) ==
    IF kind = Uncompressed THEN {IoOk(Len(buf))}
    ELSE {IoOk(n) : n \in 0..Len(buf)} \cup {IoErr(e) : e \in IoErrors}

\* What finish() can return: Vec::flush never fails.
FinishOutcomes(kind) ==
    IF kind = Uncompressed THEN {IoOk(0)}
    ELSE {IoOk(0)} \cup {IoErr(e) : e \in IoErrors}

\* <Encoder as Write>::write, given what the variant's writer returned: the
\* encoder after the call.
Encoder_write(encoder, buf, wr) ==
    IF wr.tag # "Ok" THEN encoder
    ELSE IF encoder.kind = Uncompressed
         THEN [encoder EXCEPT !.writer.buf = @ \o SubSeq(buf, 1, wr.n)]
         ELSE [encoder EXCEPT !.input = @ \o SubSeq(buf, 1, wr.n)]

\* Encoder::finish on success: the writer, holding the finished stream.
Encoder_finish(encoder) ==
    CASE encoder.kind = Deflate ->
            encoder.writer.buf \o deflate_bytes(encoder.options, encoder.input)
      [] encoder.kind = Gzip ->
            encoder.writer.buf \o gzip_bytes(encoder.options, encoder.input)
      [] encoder.kind = Uncompressed -> encoder.writer.buf

\* ------------------------------------------------------- Poll and Error

NotReady == [tag |-> "NotReady", variant |-> "none", err |-> "none", resp |-> NoResponse]
Ready(resp) == [tag |-> "Ready", variant |-> "none", err |-> "none", resp |-> resp]
ReadyUnit == Ready(NoResponse)
\* Err of the wrapped service or future: T::Error, in no variant of Error.
InnerErr(e) == [tag |-> "Err", variant |-> "none", err |-> e, resp |-> NoResponse]
\* Err(Error::Inner(e)), Err(Error::Write(e)), Err(Error::Finish(e)).
Err(variant, e) == [tag |-> "Err", variant |-> variant, err |-> e, resp |-> NoResponse]
\* The poll unwound with a panic of the wrapped future.
Panicked == [tag |-> "Panic", variant |-> "none", err |-> "none", resp |-> NoResponse]
NoPoll == [tag |-> "none", variant |-> "none", err |-> "none", resp |-> NoResponse]

\* A faulty variant of map_err_Inner: the wrapped failure is reported as Error::Write.
map_err_Inner_as_Write(poll) ==
    IF poll.tag = "Err" THEN Err("Write", poll.err) ELSE poll

\* Result::map_err(Error::Inner) on a Poll.
map_err_Inner(poll) ==
    IF poll.tag = "Err" THEN Err("Inner", poll.err) ELSE poll

\* A faulty variant of map_err_Write: a failed write is taken for a writer
\* that would block, and reported as not ready.
map_err_Write_would_block(wr) == NotReady

\* Result::map_err(Error::Write) on a failed write.
map_err_Write(wr) == Err("Write", wr.err)

\* A faulty variant of map_err_Finish: the failed finish is reported as Error::Write.
map_err_Finish_as_Write(fin) == Err("Write", fin.err)

\* Result::map_err(Error::Finish) on a failed finish.
map_err_Finish(fin) == Err("Finish", fin.err)

\* What the wrapped service's poll_ready can return.
ReadyOutcomes == {ReadyUnit, NotReady} \cup {InnerErr(e) : e \in InnerErrors}

\* What a wrapped future resolves to: a response or an error of its own.
Outcomes(responses, errors) ==
    {Ready(r) : r \in responses} \cup {InnerErr(e) : e \in errors}

\* The wrapped future's poll. Until its service has resolved it (outcome is
\* NoPoll) it is not ready; then it yields the outcome, once. Polled again
\* after that it is outside the Future contract: what it does is its own
\* business (it may report not-ready, fail or panic).
InnerPolls(inner) ==
    IF inner.done
    THEN {NotReady, Panicked} \cup {InnerErr(e) : e \in InnerErrors}
    ELSE IF inner.outcome = NoPoll THEN {NotReady}
    ELSE {inner.outcome}

\* ------------------------------------------------- CompressFuture::poll

NoParts == [status |-> 0, headers |-> NoHeaders]

\* A faulty variant of try_ready_returns: only an error returns early, a
\* wrapped future that is not ready is taken for an empty response.
try_ready_returns_on_err(io) == io.tag \notin {"Ready", "NotReady"}

\* try_ready!: whether poll returns at once with what the wrapped future
\* returned: it does unless that is Ok(Async::Ready(response)).
try_ready_returns(io) == io.tag # "Ready"

\* CompressFuture::poll, one whole call of it, given what the wrapped future
\* (io), the encoder's write (wr) and finish (fin) return when they are
\* reached. out is what poll returns, steps the calls it made in order, and
\* parts the response parts it held when it returned.
CompressFuture_poll(self, io, wr, fin) ==
    IF try_ready_returns(io)
    THEN \* try_ready!: NotReady and Err(Error::Inner(e)) return at once (and
         \* a panic of the wrapped future unwinds through poll).
         [out |-> map_err_Inner(io), steps |-> <<"inner.poll">>, parts |-> NoParts]
    ELSE LET split == into_parts(io.resp)
             body == split.body
             compressed == is_compressed(self.encoding)
             parts == IF compressed
                      THEN [split.parts EXCEPT
                              !.headers = insert(@, CONTENT_ENCODING,
                                                 header_value(self.encoding))]
                      ELSE split.parts
             capacity == IF compressed THEN Len(body) \div 3 ELSE Len(body)
             encoder == make_encoder(self, capacity)
             before == <<"inner.poll", "into_parts">>
                         \o (IF compressed THEN <<"headers.insert">> ELSE <<>>)
                         \o <<"make_encoder", "write">>
         IN  IF wr.tag = "Err"
             THEN [out |-> map_err_Write(wr), steps |-> before, parts |-> parts]
             ELSE IF fin.tag = "Err"
             THEN [out |-> map_err_Finish(fin),
                   steps |-> before \o <<"finish">>, parts |-> parts]
             ELSE [out |-> Ready(from_parts(parts,
                                 Encoder_finish(Encoder_write(encoder, body, wr)))),
                   steps |-> before \o <<"finish", "from_parts">>,
                   parts |-> parts]

\* --------------------------------------------------------------- Compress

\* The wrapped service's call: it takes the request and returns its pending
\* computation; calls counts the requests it was given.
Service_call(service, req) ==
    [service |-> [service EXCEPT !.calls = @ + 1],
     future |-> [req |-> req, outcome |-> NoPoll, done |-> FALSE]]

\* Compress::new, and a Compress built with other options.
Compress_new(inner, options) == [inner |-> inner, options |-> options]

\* A faulty variant of Compress_poll_ready: the middleware reports ready whenever the
\* wrapped service does not fail.
Compress_poll_ready_eager(self, ready) ==
    IF ready.tag = "Err" THEN map_err_Inner(ready) ELSE ReadyUnit

\* Compress::poll_ready, given what the wrapped service's poll_ready returns.
Compress_poll_ready(self, ready) == map_err_Inner(ready)

\* A faulty variant of Compress_call: the request is delegated without its
\* Accept-Encoding header.
Compress_call_stripped(self, req) ==
    LET encoding == from_request(req)
        called == Service_call(self.inner,
                               [req EXCEPT !.headers[ACCEPT_ENCODING] = <<>>])
    IN  [self |-> [self EXCEPT !.inner = called.service],
         future |-> [inner |-> called.future,
                     options |-> self.options,
                     encoding |-> encoding],
         steps |-> <<"from_request", "inner.call">>]

\* A faulty variant of Compress_call: the options are moved into the future, leaving
\* the default behind, instead of copied.
Compress_call_moving(self, req) ==
    LET encoding == from_request(req)
        called == Service_call(self.inner, req)
    IN  [self |-> [self EXCEPT !.inner = called.service, !.options = DefaultOptions],
         future |-> [inner |-> called.future,
                     options |-> self.options,
                     encoding |-> encoding],
         steps |-> <<"from_request", "inner.call">>]

\* A faulty variant of Compress_call: the future is given the default options
\* instead of a copy of the middleware's.
Compress_call_defaults(self, req) ==
    LET encoding == from_request(req)
        called == Service_call(self.inner, req)
    IN  [self |-> [self EXCEPT !.inner = called.service],
         future |-> [inner |-> called.future,
                     options |-> DefaultOptions,
                     encoding |-> encoding],
         steps |-> <<"from_request", "inner.call">>]

\* Compress::call: the middleware after the call, the CompressFuture it
\* returns, and the calls it made in order.
Compress_call(self, req) ==
    LET encoding == from_request(req)
        called == Service_call(self.inner, req)
    IN  [self |-> [self EXCEPT !.inner = called.service],
         future |-> [inner |-> called.future,
                     options |-> self.options,
                     encoding |-> encoding],
         steps |-> <<"from_request", "inner.call">>]

\* ------------------------------------------------------------------ state

VARIABLES
    compress,   \* the Compress middleware: the wrapped service and the options
    futures,    \* the CompressFutures handed out, by number
    obs,        \* the last operation: its inputs, what it returned, its steps
    failed,     \* some CompressFuture has resolved to an error
    alive,      \* the middleware has not been consumed (into_inner) or dropped
    negIn,      \* negotiation alone: the request
    negOut      \* negotiation alone: the Encoding chosen

vars == <<compress, futures, obs, failed, alive, negIn, negOut>>

FutureIds == 1..MaxFutures

NoFuture ==
    [state |-> "none",
     inner |-> [req |-> NoRequest, outcome |-> NoPoll, done |-> FALSE],
     options |-> DefaultOptions,
     encoding |-> Uncompressed]

Dropped == [NoFuture EXCEPT !.state = "dropped"]

\* A faulty variant of struct: the encoding is read from a slot shared by
\* all the futures, which holds the encoding of the first request.
struct_shared(f) ==
    [inner |-> f.inner, options |-> f.options, encoding |-> futures[1].encoding]

\* The CompressFuture struct of a live future.
struct(f) == [inner |-> f.inner, options |-> f.options, encoding |-> f.encoding]

NoObs ==
    [op |-> "none", id |-> 0, req |-> NoRequest, inner |-> NoPoll,
     wr |-> NoIo, fin |-> NoIo, out |-> NoPoll, steps |-> <<>>,
     parts |-> NoParts]

\* The requests of the middleware's runs; Accept-Encoding negotiation is
\* checked over many more in SpecNeg.
CallRequests ==
    { Request(<<>>),
      Request(<<GzipStr>>),
      Request(<<InflateStr, DeflateStr>>) }

\* After construction: Compress::new sets the default options, a Builder
\* holds any options; no request has been dispatched.
Init ==
    /\ \E options \in CompressionOptionsSet :
           compress = Compress_new([calls |-> 0], options)
    /\ futures = [id \in FutureIds |-> NoFuture]
    /\ obs = NoObs
    /\ failed = FALSE
    /\ alive = TRUE
    /\ negIn = NoRequest
    /\ negOut = "none"

\* Service::poll_ready on the middleware.
PollReady ==
    /\ alive
    /\ \E ready \in ReadyOutcomes :
           obs' = [NoObs EXCEPT !.op = "poll_ready",
                                !.inner = ready,
                                !.out = Compress_poll_ready(compress, ready)]
    /\ UNCHANGED <<compress, futures, failed, alive, negIn, negOut>>

\* Service::call on the middleware: the future gets the next free number.
Call(id) ==
    /\ alive
    /\ futures[id].state = "none"
    /\ \A j \in FutureIds : j < id => futures[j].state # "none"
    /\ \E req \in CallRequests :
           LET r == Compress_call(compress, req)
           IN  /\ compress' = r.self
               /\ futures' = [futures EXCEPT ![id] =
                                [state |-> "live",
                                 inner |-> r.future.inner,
                                 options |-> r.future.options,
                                 encoding |-> r.future.encoding]]
               /\ obs' = [NoObs EXCEPT !.op = "call", !.id = id, !.req = req,
                                       !.steps = r.steps]
    /\ UNCHANGED <<failed, alive, negIn, negOut>>

\* The wrapped service resolves the pending computation of a request, with a
\* response or with an error (the tests' send_response.respond).
Respond(id, outcomes) ==
    /\ futures[id].state = "live"
    /\ futures[id].inner.outcome = NoPoll
    /\ \E outcome \in outcomes :
           futures' = [futures EXCEPT ![id].inner.outcome = outcome]
    /\ obs' = [NoObs EXCEPT !.op = "respond", !.id = id]
    /\ UNCHANGED <<compress, failed, alive, negIn, negOut>>

\* Future::poll on a CompressFuture. The code keeps no record of having
\* resolved, so a resolved future can be polled again.
Poll(id) ==
    /\ futures[id].state = "live"
    /\ LET self == struct(futures[id])
       IN  \E io \in InnerPolls(self.inner) :
           \E wr \in (IF io.tag = "Ready"
                      THEN WriteOutcomes(self.encoding, io.resp.body)
                      ELSE {NoIo}) :
           \E fin \in (IF io.tag = "Ready" /\ wr.tag = "Ok"
                       THEN FinishOutcomes(self.encoding)
                       ELSE {NoIo}) :
               LET r == CompressFuture_poll(self, io, wr, fin)
               IN  /\ futures' = [futures EXCEPT
                                    ![id].inner.done = @ \/ io.tag \in {"Ready", "Err"},
                                    ![id].inner.outcome =
                                        IF io.tag \in {"Ready", "Err"} THEN NoPoll ELSE @]
                   /\ obs' = [NoObs EXCEPT !.op = "poll", !.id = id,
                                           !.inner = io, !.wr = wr, !.fin = fin,
                                           !.out = r.out, !.steps = r.steps,
                                           !.parts = r.parts]
                   /\ failed' = (failed \/ r.out.tag = "Err")
    /\ UNCHANGED <<compress, alive, negIn, negOut>>

\* A CompressFuture is dropped, resolved or not.
Drop(id) ==
    /\ futures[id].state = "live"
    /\ futures' = [futures EXCEPT ![id] = Dropped]
    /\ obs' = [NoObs EXCEPT !.op = "drop", !.id = id]
    /\ UNCHANGED <<compress, failed, alive, negIn, negOut>>

\* Compress::into_inner (or a drop of the middleware): self is consumed, the
\* futures it handed out live on.
IntoInner ==
    /\ alive
    /\ alive' = FALSE
    /\ obs' = [NoObs EXCEPT !.op = "into_inner"]
    /\ UNCHANGED <<compress, futures, failed, negIn, negOut>>

\* The outcomes of the wrapped futures where several requests are in flight:
\* the response to each request has a body of its own.
FewResponses(id) ==
    { [status |-> 200,
       headers |-> [NoHeaders EXCEPT ![CONTENT_TYPE] = <<TextStr>>],
       body |-> <<id % 2, 1>>] }

FewOutcomes(id) == Outcomes(FewResponses(id), {"e1"})

\* The middleware with up to MaxFutures requests in flight.
Next ==
    \/ PollReady
    \/ \E id \in FutureIds : Call(id)
    \/ \E id \in FutureIds : Respond(id, FewOutcomes(id))
    \/ \E id \in FutureIds : Poll(id)
    \/ \E id \in FutureIds : Drop(id)
    \/ IntoInner

Spec == Init /\ [][Next]_vars

\* One request at a time, over every wrapped response and error.
AllOutcomes == Outcomes(WrappedResponses, InnerErrors)

NextOne ==
    \/ PollReady
    \/ Call(1)
    \/ Respond(1, AllOutcomes)
    \/ Poll(1)
    \/ Drop(1)

SpecOne == Init /\ [][NextOne]_vars

\* The same, with a caller that keeps polling the future and a wrapped
\* service that eventually resolves its pending computation.
SpecLive ==
    /\ Init
    /\ [][NextOne]_vars
    /\ WF_vars(Poll(1))
    /\ WF_vars(Respond(1, AllOutcomes))

\* ------------------------------------------------------ negotiation alone

AcceptValues ==
    { GzipStr, DeflateStr, InflateStr, IdentityCapStr, GzipUpperStr, XGzipStr,
      GzipPrefixStr, DeflateGzipStr, GzipOpaqueStr, DeflateOpaqueStr }

NegInit ==
    /\ compress = Compress_new([calls |-> 0], DefaultOptions)
    /\ futures = [id \in FutureIds |-> NoFuture]
    /\ obs = NoObs
    /\ failed = FALSE
    /\ alive = TRUE
    /\ negIn \in {Request(a) : a \in SeqsUpTo(AcceptValues, MaxAccept)}
    /\ negOut = "none"

\* Encoding::from_request applied to the request.
Negotiate ==
    /\ negOut = "none"
    /\ negOut' = from_request(negIn)
    /\ UNCHANGED <<compress, futures, obs, failed, alive, negIn>>

NegNext == Negotiate

SpecNeg == NegInit /\ [][NegNext]_vars

\* ================================================================ claims

\* The Accept-Encoding values of the request negotiated alone.
NegValues == get_all(negIn.headers, ACCEPT_ENCODING)

\* The value, read as a string, contains the pattern; a value that cannot be
\* read as a string contains nothing.
Holds(value, pat) ==
    /\ \A i \in 1..Len(value) : value[i] # "0xFF"
    /\ \E i \in 1..Len(value) :
           /\ i + Len(pat) - 1 <= Len(value)
           /\ \A k \in 1..Len(pat) : value[i + k - 1] = pat[k]

Recognizable(value) == Holds(value, GzipStr) \/ Holds(value, DeflateStr)

\* C2: negotiation is first-match by header-instance order: from_request
\* returns the result for the first Accept-Encoding value that contains
\* "gzip" or "deflate"; that result is Gzip if the value contains "gzip"
\* (even if it also contains "deflate") and Deflate otherwise; later values
\* never override it.
C2_FirstMatchWins ==
    negOut # "none" =>
        \A i \in 1..Len(NegValues) :
            (/\ Recognizable(NegValues[i])
             /\ \A j \in 1..(i - 1) : ~Recognizable(NegValues[j]))
            => negOut = (IF Holds(NegValues[i], GzipStr) THEN Gzip ELSE Deflate)

\* C2 witness: the request ["inflate", "gzip", "deflate"] was negotiated
\* and gave Gzip.
C2_Witness ==
    /\ NegValues = <<InflateStr, GzipStr, DeflateStr>>
    /\ negOut = Gzip

\* C3: negotiation is total with fallback Uncompressed: it always returns an
\* Encoding; with no Accept-Encoding value, or none that contains "gzip" or
\* "deflate" (upper case, "inflate", unreadable values), it returns
\* Uncompressed; it returns Gzip or Deflate only when some value contains the
\* corresponding substring.
C3_TotalWithFallback ==
    negOut # "none" =>
        /\ negOut \in Encoding
        /\ (\A i \in 1..Len(NegValues) : ~Recognizable(NegValues[i]))
               => negOut = Uncompressed
        /\ negOut = Gzip =>
               \E i \in 1..Len(NegValues) : Holds(NegValues[i], GzipStr)
        /\ negOut = Deflate =>
               \E i \in 1..Len(NegValues) : Holds(NegValues[i], DeflateStr)

\* C3 witness: a request whose values are "Identity", an unreadable value
\* with the bytes of "gzip" in it and "GZIP" was negotiated and gave
\* Uncompressed.
C3_Witness ==
    /\ NegValues = <<IdentityCapStr, GzipOpaqueStr, GzipUpperStr>>
    /\ negOut = Uncompressed

\* The future of the last operation, and what its encoding announces.
ObsFuture == futures[obs.id]

PolledResponse == obs.op = "poll" /\ obs.inner.tag = "Ready"

Canonical(encoding) ==
    IF encoding = Gzip THEN <<"g", "z", "i", "p">>
    ELSE <<"d", "e", "f", "l", "a", "t", "e">>

\* The transform steps of a poll.
TransformSteps == {"headers.insert", "make_encoder", "write", "finish", "from_parts"}

StepsOf(steps) == {steps[i] : i \in 1..Len(steps)}

\* C1: round trip: when the negotiated encoding is Gzip or Deflate, the
\* wrapped computation yields a response with body B and neither write nor
\* finish fails, the future yields a response whose body decodes with the
\* matching decoder to exactly B and whose Content-Encoding is the canonical
\* value of the encoding.
C1_RoundTrip ==
    (/\ PolledResponse
     /\ ObsFuture.encoding \in {Gzip, Deflate}
     /\ obs.wr.tag = "Ok"
     /\ obs.fin.tag = "Ok")
    => /\ obs.out.tag = "Ready"
       /\ decode(ObsFuture.encoding, obs.out.resp.body) = obs.inner.resp.body
       /\ Canonical(ObsFuture.encoding)
              \in StepsOf(get_all(obs.out.resp.headers, CONTENT_ENCODING))

\* C4: handler failure propagation: when the wrapped computation fails with
\* e, that poll returns Error::Inner(e) with exactly e, and makes no
\* transform step: it inserts no header and builds, writes and finishes no
\* encoder.
C4_InnerFailurePropagates ==
    (obs.op = "poll" /\ obs.inner.tag = "Err")
    => /\ obs.out.tag = "Err"
       /\ obs.out.variant = "Inner"
       /\ obs.out.err = obs.inner.err
       /\ StepsOf(obs.steps) \cap TransformSteps = {}
       /\ obs.parts = NoParts

\* C4 witness: a poll found the wrapped computation failed with "e2" and
\* returned an error without reaching the encoder's write.
C4_Witness ==
    /\ obs.op = "poll"
    /\ obs.inner = InnerErr("e2")
    /\ obs.out.tag = "Err"
    /\ ~(\E j \in 1..Len(obs.steps) : obs.steps[j] = "write")

\* C5: error origins are never conflated: a poll returns Error::Write only
\* when the encoder's write failed, Error::Finish only when its finish
\* failed, Error::Inner only when the wrapped computation failed, each with
\* the originating error value; and after a failed write finish is not
\* called.
C5_ErrorOrigins ==
    obs.op = "poll" =>
        /\ obs.out.tag = "Err" => obs.out.variant \in {"Inner", "Write", "Finish"}
        /\ obs.out.variant = "Write" =>
               /\ obs.wr.tag = "Err" /\ obs.out.err = obs.wr.err
               /\ "write" \in StepsOf(obs.steps)
        /\ obs.out.variant = "Finish" =>
               /\ obs.fin.tag = "Err" /\ obs.out.err = obs.fin.err
               /\ "finish" \in StepsOf(obs.steps)
        /\ obs.out.variant = "Inner" =>
               obs.inner.tag = "Err" /\ obs.out.err = obs.inner.err
        /\ obs.wr.tag = "Err" =>
               obs.out.tag = "Err" /\ "finish" \notin StepsOf(obs.steps)
        /\ obs.fin.tag = "Err" => obs.out.tag = "Err"

\* C5 witness: the write took the whole body, finish failed with "io2", and
\* the poll returned Error::Finish.
C5_Witness ==
    /\ PolledResponse
    /\ obs.wr = IoOk(Len(obs.inner.resp.body))
    /\ obs.fin = IoErr("io2")
    /\ obs.out.variant = "Finish"

\* C6: no partial success: whenever a poll yields a response, the encoder
\* has accepted every byte of the wrapped body (write returned the body's
\* length) and finish has succeeded.
C6_NoPartialSuccess ==
    (obs.op = "poll" /\ obs.out.tag = "Ready")
    => /\ obs.wr.tag = "Ok"
       /\ obs.wr.n = Len(obs.inner.resp.body)
       /\ obs.fin.tag = "Ok"

\* C10: when the negotiated encoding is Gzip or Deflate, every response a
\* poll yields carries exactly one Content-Encoding value, the canonical
\* value of the encoding, whatever the wrapped response carried.
C10_OneContentEncoding ==
    (/\ obs.op = "poll"
     /\ obs.out.tag = "Ready"
     /\ ObsFuture.encoding \in {Gzip, Deflate})
    => get_all(obs.out.resp.headers, CONTENT_ENCODING)
           = <<Canonical(ObsFuture.encoding)>>

\* C10 witness: the wrapped response carried two Content-Encoding values and
\* the future negotiated Deflate yielded a response.
C10_Witness ==
    /\ obs.op = "poll"
    /\ obs.out.tag = "Ready"
    /\ ObsFuture.encoding = Deflate
    /\ Len(get_all(obs.inner.resp.headers, CONTENT_ENCODING)) = 2

\* Futures handed out so far.
HandedOut == {id \in FutureIds : futures[id].state # "none"}

\* C7: Compress::call never fails and never suspends: it computes the
\* encoding from the request, then calls the wrapped service exactly once
\* with the request unmodified, and returns a CompressFuture holding that
\* pending computation; nothing of the wrapped service's failure shows
\* before the future is polled.
C7_CallDelegatesOnce ==
    /\ compress.inner.calls = Cardinality(HandedOut)
    /\ obs.op = "call" =>
           /\ ObsFuture.state = "live"
           /\ ObsFuture.inner.req = obs.req
           /\ ObsFuture.inner.req.headers = obs.req.headers
           /\ ObsFuture.inner.req.body = obs.req.body
           /\ ~ObsFuture.inner.done
           /\ obs.steps = <<"from_request", "inner.call">>
           /\ obs.out.tag = "none"

\* C7 witness: the second call, with Accept-Encoding: gzip, returned its
\* future.
C7_Witness ==
    /\ obs.op = "call"
    /\ obs.id = 2
    /\ get_all(obs.req.headers, ACCEPT_ENCODING) = <<GzipStr>>
    /\ compress.inner.calls = 2

\* C8: Compress::poll_ready is a transparent delegation: Ready exactly when
\* the wrapped poll_ready is Ready, NotReady exactly when it is NotReady,
\* Error::Inner(e) exactly when it fails with e.
C8_PollReadyDelegates ==
    obs.op = "poll_ready" =>
        /\ obs.out.tag = obs.inner.tag
        /\ obs.out.tag \in {"Ready", "NotReady", "Err"}
        /\ obs.out.tag = "Err" =>
               obs.out.variant = "Inner" /\ obs.out.err = obs.inner.err
        /\ obs.out.tag # "Err" => obs.out.variant = "none"

\* C8 witness: the wrapped service was not ready and so was the middleware,
\* with a request in flight.
C8_Witness ==
    /\ obs.op = "poll_ready"
    /\ obs.inner = NotReady
    /\ obs.out.tag = "NotReady"
    /\ HandedOut # {}

\* C9: errors do not poison the middleware: no step changes its options;
\* polling, resolving or dropping a future changes nothing of the
\* middleware; and every call, whatever came before, returns the future a
\* fresh middleware with these options returns: the encoding negotiated
\* from its request, the options, the pending computation of the unmodified
\* request.
C9_NoPoison ==
    [][ /\ compress'.options = compress.options
        /\ obs'.op \in {"poll", "drop", "respond", "poll_ready"}
               => compress' = compress
        /\ obs'.op = "call" =>
               LET new == futures'[obs'.id]
               IN  /\ futures[obs'.id].state = "none"
                   /\ new.state = "live"
                   /\ new.encoding = from_request(obs'.req)
                   /\ new.options = compress.options
                   /\ new.inner = [req |-> obs'.req, outcome |-> NoPoll, done |-> FALSE]
                   /\ compress'.inner.calls = compress.inner.calls + 1
      ]_vars

\* C9 witness: a call made after a future resolved to an error, on a
\* middleware whose options are not the default.
C9_Witness ==
    /\ failed
    /\ obs.op = "call"
    /\ compress.options = "fast"
    /\ ObsFuture.options = "fast"

\* C11: identity path: when the negotiated encoding is Uncompressed and the
\* wrapped computation yields a response, the future yields a response with
\* the same body, byte for byte, the same status and the same headers; no
\* Content-Encoding value (in particular no "identity") is added.
C11_IdentityPath ==
    (PolledResponse /\ ObsFuture.encoding = Uncompressed)
    => /\ obs.out.tag = "Ready"
       /\ obs.out.resp.body = obs.inner.resp.body
       /\ obs.out.resp.status = obs.inner.resp.status
       /\ obs.out.resp.headers = obs.inner.resp.headers
       /\ \A i \in 1..Len(obs.out.resp.headers[CONTENT_ENCODING]) :
              /\ i <= Len(obs.inner.resp.headers[CONTENT_ENCODING])
              /\ obs.out.resp.headers[CONTENT_ENCODING][i]
                     = obs.inner.resp.headers[CONTENT_ENCODING][i]

\* C11 witness: the request negotiated no compression, and a wrapped response
\* with a body of two bytes that already carries "Content-Encoding: br" was
\* yielded.
C11_Witness ==
    /\ PolledResponse
    /\ ObsFuture.encoding = Uncompressed
    /\ obs.inner.resp.body = <<0, 1>>
    /\ obs.inner.resp.headers[CONTENT_ENCODING] = <<BrStr>>
    /\ obs.out.tag = "Ready"

\* C13: phase ordering: a poll that finds the wrapped computation not ready
\* returns NotReady and makes no transform step; a poll makes a transform
\* step only when the wrapped computation has yielded a response in that same
\* poll, and only after it polled it.
C13_PhaseOrdering ==
    obs.op = "poll" =>
        /\ obs.inner.tag = "NotReady" =>
               /\ obs.out = NotReady
               /\ obs.steps = <<"inner.poll">>
               /\ obs.parts = NoParts
        /\ \A i \in 1..Len(obs.steps) :
               obs.steps[i] \in TransformSteps \cup {"into_parts"} =>
                   /\ obs.inner.tag = "Ready"
                   /\ \E j \in 1..(i - 1) : obs.steps[j] = "inner.poll"
        /\ Len(obs.steps) >= 1 /\ obs.steps[1] = "inner.poll"

\* C13 witness: a request negotiated Gzip was polled before the wrapped
\* service had answered it, and the poll returned NotReady.
C13_Witness ==
    /\ obs.op = "poll"
    /\ obs.inner = NotReady
    /\ obs.out = NotReady
    /\ ObsFuture.encoding = Gzip
    /\ ~ObsFuture.inner.done

\* The future has yielded a terminal result in its last poll.
Resolved ==
    obs.op = "poll" /\ obs.id = 1 /\ obs.out.tag \in {"Ready", "Err"}

\* C14: completion without further suspension: the poll in which the wrapped
\* computation yields a response returns a response, Error::Write or
\* Error::Finish, never NotReady; so a future that keeps being polled, and
\* whose wrapped computation eventually resolves, eventually resolves (unless
\* it is dropped).
C14_NoFurtherSuspension ==
    /\ [](PolledResponse =>
            /\ obs.out.tag \in {"Ready", "Err"}
            /\ obs.out.tag = "Err" => obs.out.variant \in {"Write", "Finish"})
    /\ []((futures[1].state = "live" /\ ~futures[1].inner.done)
            => <>(Resolved \/ futures[1].state = "dropped"))

\* C14 witness: the wrapped computation yielded a response of two bytes to a
\* request negotiated Gzip, the write failed, and that poll returned an error.
C14_Witness ==
    /\ PolledResponse
    /\ ObsFuture.encoding = Gzip
    /\ Len(obs.inner.resp.body) = 2
    /\ obs.wr.tag = "Err"
    /\ obs.out.tag = "Err"

\* C12: per-request snapshot: the encoding and the options of a
\* CompressFuture are fixed when Compress::call returns: the encoding is the
\* one negotiated from that request's headers, the options are the
\* middleware's at that moment; no later step (a poll, a call for another
\* request, the consumption or drop of the middleware) changes them, or the
\* request the future's wrapped computation was given, while the future lives.
C12_Snapshot ==
    [][/\ \A id \in FutureIds :
              (futures[id].state = "live" /\ futures'[id].state = "live")
              => /\ futures'[id].encoding = futures[id].encoding
                 /\ futures'[id].options = futures[id].options
                 /\ futures'[id].inner.req = futures[id].inner.req
       /\ obs'.op = "call" =>
              /\ futures[obs'.id].state = "none"
              /\ futures'[obs'.id].state = "live"
              /\ futures'[obs'.id].encoding = from_request(obs'.req)
              /\ futures'[obs'.id].options = compress.options
              /\ futures'[obs'.id].inner.req = obs'.req]_vars

\* C12 witness: the first future, created with Gzip by a middleware built
\* with the "fast" options, yields a response after a second request with
\* another encoding was dispatched and the middleware was consumed.
C12_Witness ==
    /\ obs.op = "poll"
    /\ obs.id = 1
    /\ obs.out.tag = "Ready"
    /\ ~alive
    /\ futures[1].options = "fast"
    /\ futures[1].encoding = Gzip
    /\ futures[2].state = "live"
    /\ futures[2].encoding = Deflate

\* C15: exhaustion after completion: once the future has completed (its
\* wrapped computation has resolved in an earlier poll), a later poll does not
\* poll the wrapped computation again and yields no second response or
\* error.
C15_Exhausted ==
    [][(futures[1].state = "live" /\ futures[1].inner.done /\ obs'.op = "poll")
       => /\ "inner.poll" \notin StepsOf(obs'.steps)
          /\ obs'.out.tag \notin {"Ready", "Err"}]_vars

\* The header entries of a response under the names other than
\* Content-Encoding.
OtherHeaders(headers) == [n \in HeaderNames \ {CONTENT_ENCODING} |-> headers[n]]

\* The values of a header are among those of another, in order.
IsPrefix(s, t) == Len(s) <= Len(t) /\ SubSeq(t, 1, Len(s)) = s

\* Every header entry of the wrapped response is in the yielded response,
\* which has at most one value more, the encoding's.
C16_AllEntriesKept ==
    /\ \A n \in HeaderNames \ {CONTENT_ENCODING} :
           obs.out.resp.headers[n] = obs.inner.resp.headers[n]
    /\ LET was == obs.inner.resp.headers[CONTENT_ENCODING]
           now == obs.out.resp.headers[CONTENT_ENCODING]
       IN  \/ now = was
           \/ /\ ObsFuture.encoding # Uncompressed
              /\ Len(now) = Len(was) + 1
              /\ \E i \in 1..Len(now) :
                     /\ now[i] = Canonical(ObsFuture.encoding)
                     /\ SubSeq(now, 1, i - 1) \o SubSeq(now, i + 1, Len(now)) = was

\* C16 as stated: every response the future yields has the status of the
\* wrapped response and contains every header entry (name and value) the
\* wrapped response carried, with at most the encoding's value added.
C16_Original ==
    (obs.op = "poll" /\ obs.out.tag = "Ready")
    => /\ obs.out.resp.status = obs.inner.resp.status
       /\ C16_AllEntriesKept

\* C16, amended: every response the future yields has the status of the
\* wrapped response and every header entry it carried under the names other
\* than Content-Encoding, and no other entry under those names; its
\* Content-Encoding values are the wrapped response's when the encoding is
\* Uncompressed, and otherwise the encoding's value alone, in place of those
\* the wrapped response carried.
C16_HeadersAndStatus ==
    (obs.op = "poll" /\ obs.out.tag = "Ready")
    => /\ obs.out.resp.status = obs.inner.resp.status
       /\ OtherHeaders(obs.out.resp.headers) = OtherHeaders(obs.inner.resp.headers)
       /\ obs.out.resp.headers[CONTENT_ENCODING]
              = IF ObsFuture.encoding = Uncompressed
                THEN obs.inner.resp.headers[CONTENT_ENCODING]
                ELSE <<Canonical(ObsFuture.encoding)>>

\* C16 witness: a wrapped 404 response that carries "Content-Encoding: br"
\* was yielded by a future negotiated Gzip.
C16_Witness ==
    /\ obs.op = "poll"
    /\ obs.out.tag = "Ready"
    /\ ObsFuture.encoding = Gzip
    /\ obs.inner.resp.status = 404
    /\ obs.inner.resp.headers[CONTENT_ENCODING] = <<BrStr>>

\* The position of a step in the steps of a poll, 0 when it was not made.
StepAt(steps, step) ==
    IF step \in StepsOf(steps)
    THEN CHOOSE i \in 1..Len(steps) : steps[i] = step
    ELSE 0

\* C17: header-before-encode ordering: when the encoding is compressed, the
\* Content-Encoding header is set on the response parts before the encoder's
\* write and finish are attempted, and it is set also when write or finish
\* then fails; in those runs only the error is yielded, never the parts.
C17_HeaderBeforeEncode ==
    (PolledResponse /\ ObsFuture.encoding \in {Gzip, Deflate})
    => /\ StepAt(obs.steps, "headers.insert") > 0
       /\ StepAt(obs.steps, "write") > StepAt(obs.steps, "headers.insert")
       /\ "finish" \in StepsOf(obs.steps)
              => StepAt(obs.steps, "finish") > StepAt(obs.steps, "write")
       /\ obs.parts.headers[CONTENT_ENCODING] = <<Canonical(ObsFuture.encoding)>>
       /\ (obs.wr.tag = "Err" \/ obs.fin.tag = "Err")
              => /\ obs.out.tag = "Err"
                 /\ obs.out.resp = NoResponse
                 /\ "from_parts" \notin StepsOf(obs.steps)

\* C17 witness: the finish of a Deflate encoder failed after the header was
\* set on the parts of a wrapped response with no Content-Encoding.
C17_Witness ==
    /\ PolledResponse
    /\ ObsFuture.encoding = Deflate
    /\ obs.fin.tag = "Err"
    /\ obs.inner.resp.headers[CONTENT_ENCODING] = <<>>
    /\ obs.parts.headers[CONTENT_ENCODING] = <<DeflateStr>>
    /\ obs.out.tag = "Err"

====
